---- MODULE Spec2Model ----
(***************************************************************************)
(* The NPM dataplane cache of azure-container-networking: the IPSet        *)
(* manager (hash-set cache and list-set cache), the policy manager (policy *)
(* cache in front of a programming backend) and the DataPlane that ties    *)
(* policies to ipsets by references.                                       *)
(*                                                                         *)
(* Every operation of the Go code is an operator from a manager state to a *)
(* result [st, err, log]: the state after the call, the error returned     *)
(* (Nil for none) and the branch the call logged.  An action applies one   *)
(* operation to the current state and records the call in lastCall.        *)
(***************************************************************************)
EXTENDS Integers, Sequences, FiniteSets, TLC

VARIABLES
    setMap,          \* IPSetManager.setMap.cache : name -> hash set object
    listMap,         \* IPSetManager.listMap.cache: name -> list set object
    numIPSetEntries, \* metrics.NumIPSetEntries
    policyCache,     \* PolicyManager.policyMap.cache: policy name -> policy
    programmed,      \* policy names the programming backend holds
    dirtyCache,      \* names of the sets changed since the last flush
    appliedSets,     \* the sets the ipset backend holds: name -> content
    lastCall,        \* the last call made: [op, args, err, log]
    endpointCache,   \* DataPlane.endpointCache: pod key -> endpoint
    proc             \* goroutine -> the manager call it is in and the locks it holds

vars == <<setMap, listMap, numIPSetEntries, policyCache, programmed,
          dirtyCache, appliedSets, lastCall, endpointCache, proc>>

----------------------------------------------------------------------------
\* Bounds and input universes

\* metrics.NumIPSetEntries is a gauge nothing bounds: the model follows it
\* within -MaxNegEntries .. MaxEntries
MaxEntries == 3
MaxNegEntries == 1

Names == {"a", "b"}
Types == {"NameSpace", "KeyLabelOfNameSpace", "Unknown"}
IPs == {"10.0.0.1", "fe80::1"}
PodKeys == {"", "k1", "k2"}

\* IPSetManager.os as NewIPSetManager sets it
os == "linux"

\* error values, after the message each errors.Errorf carries
Nil == "nil"
UnknownKind == "UnknownKind"
UnsupportedFamily == "UnsupportedFamily"
WrongKind == "WrongKind"
SetNotFound == "SetNotFound"
SelfReference == "SelfReference"
BackendFailure == "BackendFailure"

HashSet == "HashSet"
ListSet == "ListSet"
UnknownSetKind == "unknown"

SelectorType == "Selector"
NetPolType == "NetPol"

----------------------------------------------------------------------------
\* Go maps as functions with a finite domain

EmptyMap == [x \in {} |-> ""]

Put(m, k, v) == [x \in (DOMAIN m) \cup {k} |-> IF x = k THEN v ELSE m[x]]

Del(m, k) == [x \in (DOMAIN m) \ {k} |-> m[x]]

Res(st, err, log) == [st |-> st, err |-> err, log |-> log]

\* the text forms net.ParseIP(ip).To4() accepts: dotted-quad IPv4
IsIPv4(ip) == ip \in {"10.0.0.1", "10.0.0.2", "10.0.0.3"}

----------------------------------------------------------------------------
\* package ipsets

\* the kind a set type stands for
getSetKind(type) ==
    CASE type \in {"NameSpace", "KeyLabelOfPod", "KeyValueLabelOfPod"} -> HashSet
      [] type \in {"KeyLabelOfNameSpace", "KeyValueLabelOfNameSpace"} -> ListSet
      [] OTHER -> UnknownSetKind

\* a set object with no member and no reference
NewIPSet(type) ==
    [Type |-> type, IpPodKey |-> EmptyMap, IPSet |-> EmptyMap, refs |-> {}]

exists(m, name) == name \in DOMAIN m

\* mutant: a set of no known kind is kept with the hash sets
getSetCache_UnknownIsHash(type) ==
    CASE getSetKind(type) = ListSet -> [m |-> "listMap", err |-> Nil]
      [] OTHER -> [m |-> "setMap", err |-> Nil]

\* the cache a set of this type lives in: "setMap", "listMap", or an error
getSetCache(type) ==
    CASE getSetKind(type) = ListSet -> [m |-> "listMap", err |-> Nil]
      [] getSetKind(type) = HashSet -> [m |-> "setMap", err |-> Nil]
      [] OTHER -> [m |-> "none", err |-> UnknownKind]

\* mutant: the set is stored whether or not the name is cached already
CreateIPSet_Overwrites(st, name, type) ==
    LET c == getSetCache(type) IN
    IF c.err # Nil THEN Res(st, c.err, "")
    ELSE Res([st EXCEPT ![c.m] = Put(st[c.m], name, NewIPSet(type))], Nil, "")

CreateIPSet(st, name, type) ==
    LET c == getSetCache(type) IN
    IF c.err # Nil THEN Res(st, c.err, "")
    ELSE IF exists(st[c.m], name) THEN Res(st, Nil, "")
    ELSE Res([st EXCEPT ![c.m] = Put(st[c.m], name, NewIPSet(type))], Nil, "")

\* AddToSet once the set object is in hand
addToCachedSet(st, set, setName, ip, podKey) ==
    IF getSetKind(set.Type) # HashSet THEN Res(st, WrongKind, "")
    ELSE IF ip \in DOMAIN set.IpPodKey
    THEN IF set.IpPodKey[ip] # podKey
         THEN Res([st EXCEPT !.setMap[setName].IpPodKey[ip] = podKey],
                  Nil, "PodOwnerChanged")
         ELSE Res(st, Nil, "")
    ELSE Res([st EXCEPT !.setMap[setName].IpPodKey = Put(@, ip, podKey),
                        !.entries = @ + 1],
             Nil, "")

\* mutant: an IP that has an owner keeps it
AddToSet_KeepsOwner(st, setName, ip, podKey) ==
    IF ~IsIPv4(ip) THEN Res(st, UnsupportedFamily, "")
    ELSE IF setName \notin DOMAIN st.setMap THEN Res(st, UnknownKind, "")
    ELSE IF ip \in DOMAIN st.setMap[setName].IpPodKey THEN Res(st, Nil, "")
    ELSE addToCachedSet(st, st.setMap[setName], setName, ip, podKey)

\* mutant: the set built for an absent name is cached before it is rejected
AddToSet_CachesRejectedSet(st, setName, ip, podKey) ==
    IF ~IsIPv4(ip) THEN Res(st, UnsupportedFamily, "")
    ELSE IF setName \in DOMAIN st.setMap
    THEN addToCachedSet(st, st.setMap[setName], setName, ip, podKey)
    ELSE Res([st EXCEPT !.setMap = Put(@, setName, NewIPSet("Unknown"))],
             getSetCache("Unknown").err, "")

AddToSet(st, setName, ip, podKey) ==
    IF ~IsIPv4(ip) THEN Res(st, UnsupportedFamily, "")
    ELSE
      LET present == setName \in DOMAIN st.setMap
          \* an absent set is built with SetType_Unknown and handed to CreateIPSet
          created == IF present THEN Res(st, Nil, "")
                     ELSE CreateIPSet(st, setName, "Unknown")
          set == IF present THEN st.setMap[setName] ELSE NewIPSet("Unknown")
      IN
      IF created.err # Nil THEN Res(st, created.err, "")
      ELSE addToCachedSet(created.st, set, setName, ip, podKey)

\* mutant: the IP is removed whoever owns it
DeleteFromSet_NoOwnerCheck(st, setName, ip, podKey) ==
    IF setName \notin DOMAIN st.setMap THEN Res(st, SetNotFound, "")
    ELSE IF getSetKind(st.setMap[setName].Type) # HashSet THEN Res(st, WrongKind, "")
    ELSE Res([st EXCEPT !.setMap[setName].IpPodKey = Del(@, ip),
                        !.entries = @ - 1],
             Nil, "")

\* mutant: a set that is not cached is no error
DeleteFromSet_MissingIsNil(st, setName, ip, podKey) ==
    IF setName \notin DOMAIN st.setMap THEN Res(st, Nil, "")
    ELSE IF ip \in DOMAIN st.setMap[setName].IpPodKey
            /\ st.setMap[setName].IpPodKey[ip] = podKey
    THEN Res([st EXCEPT !.setMap[setName].IpPodKey = Del(@, ip),
                        !.entries = @ - 1],
             Nil, "")
    ELSE Res(st, Nil, "StaleDelete")

DeleteFromSet(st, setName, ip, podKey) ==
    IF setName \notin DOMAIN st.setMap THEN Res(st, SetNotFound, "")
    ELSE
      LET set == st.setMap[setName]
          \* a Go map read of an absent key yields the empty string
          cachedPodKey == IF ip \in DOMAIN set.IpPodKey THEN set.IpPodKey[ip] ELSE ""
      IN
      IF getSetKind(set.Type) # HashSet THEN Res(st, WrongKind, "")
      ELSE IF cachedPodKey # podKey THEN Res(st, Nil, "StaleDelete")
      ELSE Res([st EXCEPT !.setMap[setName].IpPodKey = Del(@, ip),
                          !.entries = @ - 1],
               Nil, "")

\* mutant: the member is not looked up in the hash-set cache
addMemberToList_NoMemberLookup(st, listName, setName) ==
    IF listName \notin DOMAIN st.listMap THEN Res(st, SetNotFound, "")
    ELSE IF getSetKind(st.listMap[listName].Type) # ListSet THEN Res(st, WrongKind, "")
    ELSE IF setName \in DOMAIN st.listMap[listName].IPSet
    THEN Res([st EXCEPT !.listMap[listName].IPSet[setName] = TRUE], Nil, "")
    ELSE Res([st EXCEPT !.listMap[listName].IPSet = Put(@, setName, TRUE),
                        !.entries = @ + 1],
             Nil, "")

\* mutant: the member is taken from whichever cache holds the name
addMemberToList_FromEitherCache(st, listName, setName) ==
    IF ~(setName \in DOMAIN st.setMap \/ setName \in DOMAIN st.listMap)
    THEN Res(st, SetNotFound, "")
    ELSE IF listName \notin DOMAIN st.listMap THEN Res(st, SetNotFound, "")
    ELSE IF getSetKind(st.listMap[listName].Type) # ListSet THEN Res(st, WrongKind, "")
    ELSE IF setName \in DOMAIN st.listMap[listName].IPSet
    THEN Res([st EXCEPT !.listMap[listName].IPSet[setName] = TRUE], Nil, "")
    ELSE Res([st EXCEPT !.listMap[listName].IPSet = Put(@, setName, TRUE),
                        !.entries = @ + 1],
             Nil, "")

\* AddToList past the self-reference check
addMemberToList(st, listName, setName) ==
    IF setName \notin DOMAIN st.setMap THEN Res(st, SetNotFound, "")
    ELSE IF getSetKind(st.setMap[setName].Type) # HashSet /\ os # "windows"
         THEN Res(st, WrongKind, "")
    ELSE IF listName \notin DOMAIN st.listMap THEN Res(st, SetNotFound, "")
    ELSE
      LET list == st.listMap[listName] IN
      IF getSetKind(list.Type) # ListSet THEN Res(st, WrongKind, "")
      ELSE IF setName \in DOMAIN list.IPSet
      THEN \* already a member: kept when it is the cached object, else replaced
           IF list.IPSet[setName] THEN Res(st, Nil, "")
           ELSE Res([st EXCEPT !.listMap[listName].IPSet[setName] = TRUE], Nil, "")
      ELSE Res([st EXCEPT !.listMap[listName].IPSet = Put(@, setName, TRUE),
                          !.entries = @ + 1],
               Nil, "")

\* mutant: a list may name itself
AddToList_NoSelfCheck(st, listName, setName) ==
    addMemberToList(st, listName, setName)

AddToList(st, listName, setName) ==
    IF listName = setName THEN Res(st, SelfReference, "")
    ELSE addMemberToList(st, listName, setName)

\* mutant: the member is not looked up in the hash-set cache
DeleteFromList_NoMemberLookup(st, listName, setName) ==
    IF listName \notin DOMAIN st.listMap THEN Res(st, SetNotFound, "")
    ELSE IF getSetKind(st.listMap[listName].Type) # ListSet THEN Res(st, WrongKind, "")
    ELSE Res(st, Nil, "")

DeleteFromList(st, listName, setName) ==
    IF setName \notin DOMAIN st.setMap THEN Res(st, SetNotFound, "")
    ELSE IF getSetKind(st.setMap[setName].Type) # HashSet THEN Res(st, WrongKind, "")
    ELSE IF listName \notin DOMAIN st.listMap THEN Res(st, SetNotFound, "")
    ELSE IF getSetKind(st.listMap[listName].Type) # ListSet THEN Res(st, WrongKind, "")
    ELSE IF setName \notin DOMAIN st.listMap[listName].IPSet THEN Res(st, Nil, "")
    \* the member is found: the function returns without deleting it
    ELSE Res(st, Nil, "")

DeleteList(st, name) ==
    Res([st EXCEPT !.listMap = Del(@, name)], Nil, "")

\* A list member is a pointer to the set object: once the object leaves the
\* cache, a member entry naming it no longer is the cached object.
DeleteSet(st, name) ==
    Res([st EXCEPT !.setMap = Del(@, name),
                   !.listMap = [l \in DOMAIN @ |->
                                  [@[l] EXCEPT !.IPSet =
                                     [s \in DOMAIN @ |-> IF s = name THEN FALSE ELSE @[s]]]]],
        Nil, "")

Clear(st) ==
    Res([st EXCEPT !.listMap = EmptyMap, !.setMap = EmptyMap], Nil, "")

\* The manager as the DataPlane calls it: by name, members as a slice

AddRef(m, name, ref) ==
    IF name \in DOMAIN m THEN [m EXCEPT ![name].refs = @ \cup {ref}] ELSE m

DelRef(m, name, ref) ==
    IF name \in DOMAIN m THEN [m EXCEPT ![name].refs = @ \ {ref}] ELSE m

AddReference(st, setName, referenceName, referenceType) ==
    IF ~exists(st.setMap, setName) /\ ~exists(st.listMap, setName)
    THEN Res(st, SetNotFound, "")
    ELSE Res([st EXCEPT !.setMap = AddRef(@, setName, <<referenceName, referenceType>>),
                        !.listMap = AddRef(@, setName, <<referenceName, referenceType>>)],
             Nil, "")

DeleteReference(st, setName, referenceName, referenceType) ==
    IF ~exists(st.setMap, setName) /\ ~exists(st.listMap, setName)
    THEN Res(st, SetNotFound, "")
    ELSE Res([st EXCEPT !.setMap = DelRef(@, setName, <<referenceName, referenceType>>),
                        !.listMap = DelRef(@, setName, <<referenceName, referenceType>>)],
             Nil, "")

\* removes the set of that name from the cache, whichever holds it
DeleteIPSet(st, name) ==
    DeleteList(DeleteSet(st, name).st, name)

\* a call that changed a cache marks the set it was made on dirty
markDirty(st, r, name) ==
    IF r.err = Nil /\ (r.st.setMap # st.setMap \/ r.st.listMap # st.listMap)
    THEN [r EXCEPT !.st.dirty = @ \cup {name}]
    ELSE r

mgrCreateIPSet(st, name, type) ==
    markDirty(st, CreateIPSet(st, name, type), name)

RECURSIVE AddToSetNames(_, _, _, _)
AddToSetNames(st, setNames, ip, podKey) ==
    IF setNames = <<>> THEN Res(st, Nil, "")
    ELSE LET r == markDirty(st, AddToSet(st, Head(setNames), ip, podKey), Head(setNames)) IN
         IF r.err # Nil THEN r ELSE AddToSetNames(r.st, Tail(setNames), ip, podKey)

RECURSIVE RemoveFromSetNames(_, _, _, _)
RemoveFromSetNames(st, setNames, ip, podKey) ==
    IF setNames = <<>> THEN Res(st, Nil, "")
    ELSE LET r == markDirty(st, DeleteFromSet(st, Head(setNames), ip, podKey), Head(setNames)) IN
         IF r.err # Nil THEN r ELSE RemoveFromSetNames(r.st, Tail(setNames), ip, podKey)

RECURSIVE AddToListNames(_, _, _)
AddToListNames(st, listName, setNames) ==
    IF setNames = <<>> THEN Res(st, Nil, "")
    ELSE LET r == markDirty(st, AddToList(st, listName, Head(setNames)), listName) IN
         IF r.err # Nil THEN r ELSE AddToListNames(r.st, listName, Tail(setNames))

RECURSIVE RemoveFromListNames(_, _, _)
RemoveFromListNames(st, listName, setNames) ==
    IF setNames = <<>> THEN Res(st, Nil, "")
    ELSE LET r == markDirty(st, DeleteFromList(st, listName, Head(setNames)), listName) IN
         IF r.err # Nil THEN r ELSE RemoveFromListNames(r.st, listName, Tail(setNames))

\* what the backend is handed for a set: its IPs and its member sets
SetContent(st, name) ==
    [ips |-> IF name \in DOMAIN st.setMap THEN DOMAIN st.setMap[name].IpPodKey ELSE {},
     members |-> IF name \in DOMAIN st.listMap THEN DOMAIN st.listMap[name].IPSet ELSE {}]

\* mutant: the dirty marks outlive a flush that succeeded
ApplyIPSets_KeepsDirty(st, ok) ==
    IF st.dirty = {} THEN [st |-> st, err |-> Nil, log |-> "NothingToApply", flushed |-> {}]
    ELSE IF ~ok THEN [st |-> st, err |-> BackendFailure, log |-> "Flush", flushed |-> {}]
    ELSE [st |-> [st EXCEPT !.applied = [n \in (DOMAIN @) \cup st.dirty |->
                                           IF n \in st.dirty THEN SetContent(st, n) ELSE @[n]]],
          err |-> Nil, log |-> "Flush", flushed |-> st.dirty]

\* one flush: the backend is handed every dirty set, and on its success no
\* set is dirty; ok is the backend's report
ApplyIPSets(st, ok) ==
    IF st.dirty = {} THEN [st |-> st, err |-> Nil, log |-> "NothingToApply", flushed |-> {}]
    ELSE IF ~ok THEN [st |-> st, err |-> BackendFailure, log |-> "Flush", flushed |-> {}]
    ELSE [st |-> [st EXCEPT !.applied = [n \in (DOMAIN @) \cup st.dirty |->
                                           IF n \in st.dirty THEN SetContent(st, n) ELSE @[n]],
                            !.dirty = {}],
          err |-> Nil, log |-> "Flush", flushed |-> st.dirty]

\* every name is looked up in the hash-set cache before any IP is collected
RECURSIVE validateSelectorIPSets(_, _)
validateSelectorIPSets(st, setNames) ==
    IF setNames = <<>> THEN Nil
    ELSE IF Head(setNames) \notin DOMAIN st.setMap THEN SetNotFound
    ELSE IF getSetKind(st.setMap[Head(setNames)].Type) # HashSet THEN WrongKind
    ELSE validateSelectorIPSets(st, Tail(setNames))

\* the IPs of ips that the set holds too
getSetIntersection(set, ips) == {ip \in ips : ip \in DOMAIN set.IpPodKey}

\* the IPs collected so far, narrowed by one set after the other
RECURSIVE intersectSets(_, _, _)
intersectSets(st, setNames, ips) ==
    IF setNames = <<>> THEN ips
    ELSE intersectSets(st, Tail(setNames),
                       getSetIntersection(st.setMap[Head(setNames)], ips))

\* mutant: an IP of any named set is returned
GetIPsFromSelectorIPSets_Union(st, setNames) ==
    IF setNames = <<>> THEN [ips |-> {}, err |-> Nil]
    ELSE IF validateSelectorIPSets(st, setNames) # Nil
    THEN [ips |-> {}, err |-> validateSelectorIPSets(st, setNames)]
    ELSE [ips |-> UNION {DOMAIN st.setMap[setNames[i]].IpPodKey : i \in DOMAIN setNames},
          err |-> Nil]

\* mutant: the last named set does not narrow the result
GetIPsFromSelectorIPSets_SkipsLast(st, setNames) ==
    IF setNames = <<>> THEN [ips |-> {}, err |-> Nil]
    ELSE IF validateSelectorIPSets(st, setNames) # Nil
    THEN [ips |-> {}, err |-> validateSelectorIPSets(st, setNames)]
    ELSE [ips |-> intersectSets(st, SubSeq(setNames, 2, Len(setNames) - 1),
                                DOMAIN st.setMap[Head(setNames)].IpPodKey),
          err |-> Nil]

\* starts from the IPs of the first named set and narrows them by the others
GetIPsFromSelectorIPSets(st, setNames) ==
    IF setNames = <<>> THEN [ips |-> {}, err |-> Nil]
    ELSE IF validateSelectorIPSets(st, setNames) # Nil
    THEN [ips |-> {}, err |-> validateSelectorIPSets(st, setNames)]
    ELSE [ips |-> intersectSets(st, Tail(setNames),
                                DOMAIN st.setMap[Head(setNames)].IpPodKey),
          err |-> Nil]

----------------------------------------------------------------------------
\* package policies

PolicyExists(st, name) == name \in DOMAIN st.policyCache

\* The backend call (addPolicy, removePolicy, updatePolicy) reports success
\* or failure: ok is its report.
\* mutant: the policy is cached before the backend's report is looked at
pMgrAddPolicy_CachesFirst(st, policy, ok) ==
    Res([st EXCEPT !.programmed = IF ok THEN @ \cup {policy.Name} ELSE @,
                   !.policyCache = Put(@, policy.Name, policy)],
        IF ok THEN Nil ELSE BackendFailure, "")

pMgrAddPolicy(st, policy, ok) ==
    IF ~ok THEN Res(st, BackendFailure, "")
    ELSE Res([st EXCEPT !.programmed = @ \cup {policy.Name},
                        !.policyCache = Put(@, policy.Name, policy)],
             Nil, "")

pMgrRemovePolicy(st, name, ok) ==
    IF ~ok THEN Res(st, BackendFailure, "")
    ELSE Res([st EXCEPT !.programmed = @ \ {name},
                        !.policyCache = Del(@, name)],
             Nil, "")

pMgrUpdatePolicy(st, policy, ok) ==
    IF ~ok THEN Res(st, BackendFailure, "") ELSE Res(st, Nil, "")

----------------------------------------------------------------------------
\* package dataplane

\* the error of ipsetMgr.CreateIPSet is dropped
dpCreateIPSet(st, setName, setType) ==
    Res(mgrCreateIPSet(st, setName, setType).st, Nil, "")

dpDeleteIPSet(st, name) ==
    Res(DeleteIPSet(st, name).st, Nil, "")

\* mutant: the set is handed to the backend as soon as it is changed
dpAddToSet_AppliesAtOnce(st, setNames, ip, podKey) ==
    LET r == AddToSetNames(st, setNames, ip, podKey) IN
    IF r.err # Nil THEN r ELSE Res(ApplyIPSets(r.st, TRUE).st, Nil, "")

dpAddToSet(st, setNames, ip, podKey) ==
    AddToSetNames(st, setNames, ip, podKey)

dpRemoveFromSet(st, setNames, ip, podKey) ==
    RemoveFromSetNames(st, setNames, ip, podKey)

dpAddToList(st, listName, setNames) ==
    AddToListNames(st, listName, setNames)

dpRemoveFromList(st, listName, setNames) ==
    RemoveFromListNames(st, listName, setNames)

ApplyDataPlane(st, ok) ==
    ApplyIPSets(st, ok)

\* mutant: a set that is cached already fails the registration
RECURSIVE createAndReference_FailsOnCachedSet(_, _, _, _)
createAndReference_FailsOnCachedSet(st, sets, netpolName, referenceType) ==
    IF sets = <<>> THEN Res(st, Nil, "")
    ELSE LET set == Head(sets)
             st1 == mgrCreateIPSet(st, set.Name, set.Type).st
             r == AddReference(st1, set.Name, netpolName, referenceType)
         IN IF st1.setMap = st.setMap /\ st1.listMap = st.listMap
            THEN Res(st, WrongKind, "")
            ELSE IF r.err # Nil THEN r
            ELSE createAndReference_FailsOnCachedSet(r.st, Tail(sets), netpolName,
                                                     referenceType)

\* first loop of addIPSetReferences
RECURSIVE createAndReference(_, _, _, _)
createAndReference(st, sets, netpolName, referenceType) ==
    IF sets = <<>> THEN Res(st, Nil, "")
    ELSE LET set == Head(sets)
             st1 == mgrCreateIPSet(st, set.Name, set.Type).st
             r == AddReference(st1, set.Name, netpolName, referenceType)
         IN IF r.err # Nil THEN r
            ELSE createAndReference(r.st, Tail(sets), netpolName, referenceType)

\* second loop of addIPSetReferences
RECURSIVE addListMembers(_, _)
addListMembers(st, sets) ==
    IF sets = <<>> THEN Res(st, Nil, "")
    ELSE LET set == Head(sets) IN
         IF set.Kind = ListSet /\ Len(set.MemberIPSets) > 0
         THEN LET r == AddToListNames(st, set.Name, set.MemberIPSets) IN
              IF r.err # Nil THEN r ELSE addListMembers(r.st, Tail(sets))
         ELSE addListMembers(st, Tail(sets))

addIPSetReferences(st, sets, netpolName, referenceType) ==
    LET r == createAndReference(st, sets, netpolName, referenceType) IN
    IF r.err # Nil THEN r ELSE addListMembers(r.st, sets)

\* first loop of deleteIPSetReferences
RECURSIVE dereference(_, _, _, _)
dereference(st, sets, netpolName, referenceType) ==
    IF sets = <<>> THEN Res(st, Nil, "")
    ELSE LET r == DeleteReference(st, Head(sets).Name, netpolName, referenceType) IN
         IF r.err # Nil THEN r
         ELSE dereference(r.st, Tail(sets), netpolName, referenceType)

\* second loop of deleteIPSetReferences
RECURSIVE removeMembersAndDelete(_, _)
removeMembersAndDelete(st, sets) ==
    IF sets = <<>> THEN Res(st, Nil, "")
    ELSE LET set == Head(sets)
             r == IF set.Kind = ListSet /\ Len(set.MemberIPSets) > 0
                  THEN RemoveFromListNames(st, set.Name, set.MemberIPSets)
                  ELSE Res(st, Nil, "")
         IN IF r.err # Nil THEN r
            ELSE removeMembersAndDelete(DeleteIPSet(r.st, set.Name).st, Tail(sets))

deleteIPSetReferences(st, sets, netpolName, referenceType) ==
    LET r == dereference(st, sets, netpolName, referenceType) IN
    IF r.err # Nil THEN r ELSE removeMembersAndDelete(r.st, sets)

\* no-op on linux: no endpoint, no error
getEndpointsToApplyPolicy(policy) == [endpoints |-> EmptyMap, err |-> Nil]

UpdatePolicy(st, policy, ok) ==
    LET r == pMgrUpdatePolicy(st, policy, ok) IN Res(r.st, r.err, "UpdatePolicy")

\* mutant: the policy is committed before its sets are registered
addNewPolicy_CommitsFirst(st, policy, ok) ==
      LET r0 == pMgrAddPolicy(st, policy, ok)
          r1 == addIPSetReferences(r0.st, policy.PodSelectorIPSets, policy.Name, SelectorType)
          r2 == addIPSetReferences(r1.st, policy.RuleIPSets, policy.Name, NetPolType)
      IN
      IF r0.err # Nil THEN Res(r0.st, r0.err, "AddPolicy")
      ELSE IF r1.err # Nil THEN Res(r1.st, r1.err, "AddSelectorReferences")
      ELSE IF r2.err # Nil THEN Res(r2.st, r2.err, "AddRuleReferences")
      ELSE Res(r2.st, Nil, "AddPolicy")

\* mutant: a failing step undoes the steps before it
addNewPolicy_RollsBack(st, policy, ok) ==
      LET r1 == addIPSetReferences(st, policy.PodSelectorIPSets, policy.Name, SelectorType)
          r2 == addIPSetReferences(r1.st, policy.RuleIPSets, policy.Name, NetPolType)
          r3 == pMgrAddPolicy(r2.st, policy, ok)
      IN
      IF r1.err # Nil THEN Res(st, r1.err, "AddSelectorReferences")
      ELSE IF r2.err # Nil THEN Res(st, r2.err, "AddRuleReferences")
      ELSE IF r3.err # Nil THEN Res(st, r3.err, "AddPolicy")
      ELSE Res(r3.st, Nil, "AddPolicy")

\* AddPolicy for a policy name that is not cached
addNewPolicy(st, policy, ok) ==
      LET r1 == addIPSetReferences(st, policy.PodSelectorIPSets, policy.Name, SelectorType)
          r2 == addIPSetReferences(r1.st, policy.RuleIPSets, policy.Name, NetPolType)
          ep == getEndpointsToApplyPolicy(policy)
          r3 == pMgrAddPolicy(r2.st, [policy EXCEPT !.PodEndpoints = ep.endpoints], ok)
      IN
      IF r1.err # Nil THEN Res(r1.st, r1.err, "AddSelectorReferences")
      ELSE IF r2.err # Nil THEN Res(r2.st, r2.err, "AddRuleReferences")
      ELSE IF ep.err # Nil THEN Res(r2.st, ep.err, "GetEndpoints")
      ELSE Res(r3.st, r3.err, "AddPolicy")

\* mutant: no look at the policy cache, every call registers and commits
AddPolicy_NoExistsCheck(st, policy, ok) ==
    addNewPolicy(st, policy, ok)

AddPolicy(st, policy, ok) ==
    IF PolicyExists(st, policy.Name) THEN UpdatePolicy(st, policy, ok)
    ELSE addNewPolicy(st, policy, ok)

\* mutant: the references are released before the policy manager is asked
RemovePolicy_ReleasesFirst(st, policyName, ok) ==
    IF ~PolicyExists(st, policyName) THEN Res(st, Nil, "PolicyNotFound")
    ELSE
      LET policy == st.policyCache[policyName]
          r2 == deleteIPSetReferences(st, policy.RuleIPSets, policy.Name, NetPolType)
          r3 == deleteIPSetReferences(r2.st, policy.PodSelectorIPSets, policy.Name, SelectorType)
          r1 == pMgrRemovePolicy(r3.st, policy.Name, ok)
      IN
      IF r2.err # Nil THEN Res(r2.st, r2.err, "DeleteRuleReferences")
      ELSE IF r3.err # Nil THEN Res(r3.st, r3.err, "DeleteSelectorReferences")
      ELSE Res(r1.st, r1.err, "RemovePolicy")

RemovePolicy(st, policyName, ok) ==
    IF ~PolicyExists(st, policyName) THEN Res(st, Nil, "PolicyNotFound")
    ELSE
      LET policy == st.policyCache[policyName]
          r1 == pMgrRemovePolicy(st, policy.Name, ok)
          r2 == deleteIPSetReferences(r1.st, policy.RuleIPSets, policy.Name, NetPolType)
          r3 == deleteIPSetReferences(r2.st, policy.PodSelectorIPSets, policy.Name, SelectorType)
      IN
      IF r1.err # Nil THEN Res(r1.st, r1.err, "RemovePolicy")
      ELSE IF r2.err # Nil THEN Res(r2.st, r2.err, "DeleteRuleReferences")
      ELSE IF r3.err # Nil THEN Res(r3.st, r3.err, "DeleteSelectorReferences")
      ELSE Res(r3.st, Nil, "RemovePolicy")

----------------------------------------------------------------------------
\* The sets and policies a controller hands to the DataPlane
Desc(name, type, members) ==
    [Name |-> name, Type |-> type,
     Kind |-> getSetKind(type),
     MemberIPSets |-> members]

NPMNetworkPolicy(name, selectors, rules) ==
    [Name |-> name, PodSelectorIPSets |-> selectors, RuleIPSets |-> rules,
     PodEndpoints |-> EmptyMap]

DPNames == {"a", "b", "l"}
HashA == Desc("a", "NameSpace", <<>>)
HashB == Desc("b", "NameSpace", <<>>)
ListOfB == Desc("l", "KeyLabelOfNameSpace", <<"b">>)
NoKind == Desc("b", "Unknown", <<>>)

DPSets == {HashA, HashB, ListOfB, NoKind}

Policies ==
    [p1MemberFirst |-> NPMNetworkPolicy("p1", <<HashA>>, <<HashB, ListOfB>>),
     p1ListFirst   |-> NPMNetworkPolicy("p1", <<HashA>>, <<ListOfB, HashB>>),
     p2Selector    |-> NPMNetworkPolicy("p2", <<HashA>>, <<>>),
     p2NoKind      |-> NPMNetworkPolicy("p2", <<NoKind>>, <<HashA>>),
     p2ListOnly    |-> NPMNetworkPolicy("p2", <<HashA>>, <<ListOfB>>)]

PolicyNames == {"p1", "p2"}

----------------------------------------------------------------------------
\* The state machine

State ==
    [setMap |-> setMap, listMap |-> listMap, entries |-> numIPSetEntries,
     policyCache |-> policyCache, programmed |-> programmed,
     dirty |-> dirtyCache, applied |-> appliedSets]

Call(op, args, err, log) == [op |-> op, args |-> args, err |-> err, log |-> log]

\* the call returns: its result becomes the state, lastCall records the call
Returns(r, op, args) ==
    /\ setMap' = r.st.setMap
    /\ listMap' = r.st.listMap
    /\ numIPSetEntries' = r.st.entries
    /\ policyCache' = r.st.policyCache
    /\ programmed' = r.st.programmed
    /\ dirtyCache' = r.st.dirty
    /\ appliedSets' = r.st.applied
    /\ lastCall' = Call(op, args, r.err, r.log)
    /\ proc' = proc
    /\ endpointCache' = endpointCache

\* the same, for the runs that follow the entry gauge within its bounds
Commit(r, op, args) ==
    /\ r.st.entries \in (0 - MaxNegEntries)..MaxEntries
    /\ setMap' = r.st.setMap
    /\ listMap' = r.st.listMap
    /\ numIPSetEntries' = r.st.entries
    /\ policyCache' = r.st.policyCache
    /\ programmed' = r.st.programmed
    /\ dirtyCache' = r.st.dirty
    /\ appliedSets' = r.st.applied
    /\ lastCall' = Call(op, args, r.err, r.log)
    /\ proc' = proc
    /\ endpointCache' = endpointCache

\* goroutines calling into one IPSetManager
Procs == {"g1", "g2"}

IdleProc == [op |-> "", args |-> <<>>, at |-> "idle", holds |-> {}]

Init ==
    /\ proc = [p \in Procs |-> IdleProc]
    /\ setMap = EmptyMap
    /\ listMap = EmptyMap
    /\ numIPSetEntries = 0
    /\ policyCache = EmptyMap
    /\ endpointCache = EmptyMap
    /\ programmed = {}
    /\ dirtyCache = {}
    /\ appliedSets = EmptyMap
    /\ lastCall = Call("init", <<>>, Nil, "")

CallCreateIPSet ==
    \E name \in Names, type \in Types :
        Commit(CreateIPSet(State, name, type), "CreateIPSet", <<name, type>>)

CallAddToSet ==
    \E name \in Names, ip \in IPs, podKey \in PodKeys :
        Commit(AddToSet(State, name, ip, podKey), "AddToSet", <<name, ip, podKey>>)

CallDeleteFromSet ==
    \E name \in Names, ip \in IPs, podKey \in PodKeys :
        Commit(DeleteFromSet(State, name, ip, podKey), "DeleteFromSet", <<name, ip, podKey>>)

CallAddToList ==
    \E listName \in Names, setName \in Names :
        Commit(AddToList(State, listName, setName), "AddToList", <<listName, setName>>)

CallDeleteFromList ==
    \E listName \in Names, setName \in Names :
        Commit(DeleteFromList(State, listName, setName), "DeleteFromList", <<listName, setName>>)

CallDeleteList ==
    \E name \in Names : Commit(DeleteList(State, name), "DeleteList", <<name>>)

CallDeleteSet ==
    \E name \in Names : Commit(DeleteSet(State, name), "DeleteSet", <<name>>)

CallClear ==
    Commit(Clear(State), "Clear", <<>>)

Next ==
    \/ CallCreateIPSet
    \/ CallAddToSet
    \/ CallDeleteFromSet
    \/ CallAddToList
    \/ CallDeleteFromList
    \/ CallDeleteList
    \/ CallDeleteSet
    \/ CallClear

Spec == Init /\ [][Next]_vars

CallDPCreateIPSet ==
    \E set \in DPSets :
        Commit(dpCreateIPSet(State, set.Name, set.Type), "DataPlane.CreateIPSet",
               <<set.Name, set.Type>>)

CallDPDeleteIPSet ==
    \E name \in DPNames :
        Commit(dpDeleteIPSet(State, name), "DataPlane.DeleteIPSet", <<name>>)

CallAddPolicy ==
    \E id \in DOMAIN Policies, ok \in BOOLEAN :
        Commit(AddPolicy(State, Policies[id], ok), "AddPolicy", <<id, ok>>)

CallRemovePolicy ==
    \E name \in PolicyNames, ok \in BOOLEAN :
        Commit(RemovePolicy(State, name, ok), "RemovePolicy", <<name, ok>>)

CallUpdatePolicy ==
    \E id \in DOMAIN Policies, ok \in BOOLEAN :
        Commit(UpdatePolicy(State, Policies[id], ok), "UpdatePolicy", <<id, ok>>)

CallPMAddPolicy ==
    \E id \in DOMAIN Policies, ok \in BOOLEAN :
        Commit(pMgrAddPolicy(State, Policies[id], ok), "PolicyManager.AddPolicy", <<id, ok>>)

CallPMRemovePolicy ==
    \E name \in PolicyNames, ok \in BOOLEAN :
        Commit(pMgrRemovePolicy(State, name, ok), "PolicyManager.RemovePolicy", <<name, ok>>)

\* The set operations of one controller event and the flush that ends it
FlushSetNames == {<<"a">>, <<"a", "b">>}
FlushMembers == {<<"a">>, <<"b", "a">>}
FlushIP == "10.0.0.1"
FlushPodKeys == {"k1", "k2"}

CallDPAddToSet ==
    \E setNames \in FlushSetNames, podKey \in FlushPodKeys :
        Commit(dpAddToSet(State, setNames, FlushIP, podKey), "DataPlane.AddToSet",
               <<setNames, FlushIP, podKey>>)

CallDPRemoveFromSet ==
    \E setNames \in FlushSetNames, podKey \in FlushPodKeys :
        Commit(dpRemoveFromSet(State, setNames, FlushIP, podKey), "DataPlane.RemoveFromSet",
               <<setNames, FlushIP, podKey>>)

CallDPAddToList ==
    \E setNames \in FlushMembers :
        Commit(dpAddToList(State, "l", setNames), "DataPlane.AddToList", <<"l", setNames>>)

CallDPRemoveFromList ==
    \E setNames \in FlushMembers :
        Commit(dpRemoveFromList(State, "l", setNames), "DataPlane.RemoveFromList",
               <<"l", setNames>>)

\* lastCall records the sets the call handed to the backend
CallApplyDataPlane ==
    \E ok \in BOOLEAN :
        LET r == ApplyDataPlane(State, ok) IN
        /\ dirtyCache' = r.st.dirty
        /\ appliedSets' = r.st.applied
        /\ lastCall' = [op |-> "ApplyDataPlane", args |-> <<ok>>, err |-> r.err,
                        log |-> r.log, flushed |-> r.flushed]
        /\ UNCHANGED <<endpointCache, setMap, listMap, numIPSetEntries, policyCache, programmed, proc>>

NextFlush ==
    \/ CallDPCreateIPSet
    \/ CallDPAddToSet
    \/ CallDPRemoveFromSet
    \/ CallDPAddToList
    \/ CallDPRemoveFromList
    \/ CallApplyDataPlane

SpecFlush == Init /\ [][NextFlush]_vars

\* Concurrent calls into the manager.  A call is entered, takes the lock of
\* the cache it works on (sync.Mutex: it waits while another goroutine holds
\* it), does its work and returns, releasing what it holds.
LockCalls ==
    {<<"CreateIPSet", <<"a", "NameSpace">> >>,
     <<"CreateIPSet", <<"l", "KeyLabelOfNameSpace">> >>,
     <<"CreateIPSet", <<"a", "Unknown">> >>,
     <<"AddToSet", <<"a", "10.0.0.1", "k1">> >>,
     <<"DeleteFromSet", <<"a", "10.0.0.1", "k1">> >>,
     <<"AddToList", <<"l", "a">> >>,
     <<"AddToList", <<"l", "l">> >>,
     <<"DeleteFromList", <<"l", "a">> >>,
     <<"DeleteList", <<"l">> >>,
     <<"DeleteSet", <<"a">> >>,
     <<"Clear", <<>> >>}

\* the call as one operation on the caches
Apply(op, args, st) ==
    CASE op = "CreateIPSet" -> CreateIPSet(st, args[1], args[2])
      [] op = "AddToSet" -> AddToSet(st, args[1], args[2], args[3])
      [] op = "DeleteFromSet" -> DeleteFromSet(st, args[1], args[2], args[3])
      [] op = "AddToList" -> AddToList(st, args[1], args[2])
      [] op = "DeleteFromList" -> DeleteFromList(st, args[1], args[2])
      [] op = "DeleteList" -> DeleteList(st, args[1])
      [] op = "DeleteSet" -> DeleteSet(st, args[1])
      [] op = "Clear" -> Clear(st)

\* the checks a call makes before it locks anything
ReturnsBeforeLock(op, args) ==
    \/ op = "CreateIPSet" /\ getSetCache(args[2]).err # Nil
    \/ op = "AddToSet" /\ ~IsIPv4(args[2])
    \/ op = "AddToList" /\ args[1] = args[2]

\* the first lock a call takes
FirstLock(op, args) ==
    CASE op = "CreateIPSet" -> getSetCache(args[2]).m
      [] op \in {"AddToSet", "DeleteFromSet", "DeleteSet"} -> "setMap"
      [] OTHER -> "listMap"

\* the lock a call takes while it holds its first: Clear locks setMap after
\* listMap; AddToSet on a set that is not cached calls CreateIPSet, which
\* locks the cache of the new set's kind
SecondLock(op, args, st) ==
    CASE op = "Clear" -> "setMap"
      [] op = "AddToSet" /\ args[1] \notin DOMAIN st.setMap
                         /\ getSetCache("Unknown").err = Nil -> getSetCache("Unknown").m
      [] OTHER -> "none"

\* the caches the body of a call reads or writes
CachesUsed(op, args) ==
    CASE op = "CreateIPSet" -> {getSetCache(args[2]).m}
      [] op \in {"AddToSet", "DeleteFromSet", "DeleteSet"} -> {"setMap"}
      [] op \in {"AddToList", "DeleteFromList"} -> {"listMap", "setMap"}
      [] op = "DeleteList" -> {"listMap"}
      [] op = "Clear" -> {"listMap", "setMap"}

\* the calls that write the hash-set cache
SetCacheWriters == {"CreateIPSet", "AddToSet", "DeleteFromSet", "DeleteSet", "Clear"}

Holder(lock) == {p \in Procs : lock \in proc[p].holds}

\* the lock the goroutine's next step needs, "none" when it needs none
Waits(p) ==
    CASE proc[p].at = "entered" /\ ~ReturnsBeforeLock(proc[p].op, proc[p].args)
           -> FirstLock(proc[p].op, proc[p].args)
      [] proc[p].at = "locked" -> SecondLock(proc[p].op, proc[p].args, State)
      [] OTHER -> "none"

\* the entry gauge stays within its bounds whatever the calls in flight do
GaugeHasRoom ==
    LET inFlight == Cardinality({q \in Procs : proc[q].at # "idle"}) IN
    /\ numIPSetEntries + inFlight + 1 <= MaxEntries
    /\ numIPSetEntries - inFlight - 1 >= 0 - MaxNegEntries

Enter(p) ==
    /\ proc[p].at = "idle"
    /\ GaugeHasRoom
    /\ \E call \in LockCalls :
          proc' = [proc EXCEPT ![p] = [op |-> call[1], args |-> call[2],
                                       at |-> "entered", holds |-> {}]]
    /\ UNCHANGED <<endpointCache, setMap, listMap, numIPSetEntries, policyCache, programmed,
                   dirtyCache, appliedSets, lastCall>>

\* the call fails a check made before any lock and returns
ReturnEarly(p) ==
    /\ proc[p].at = "entered"
    /\ ReturnsBeforeLock(proc[p].op, proc[p].args)
    /\ proc' = [proc EXCEPT ![p] = IdleProc]
    /\ UNCHANGED <<endpointCache, setMap, listMap, numIPSetEntries, policyCache, programmed,
                   dirtyCache, appliedSets, lastCall>>

\* Lock() of the first cache; Clear replaces the list cache right after it
Lock(p) ==
    /\ proc[p].at = "entered"
    /\ ~ReturnsBeforeLock(proc[p].op, proc[p].args)
    /\ Holder(Waits(p)) = {}
    /\ proc' = [proc EXCEPT ![p].at = "locked", ![p].holds = {Waits(p)}]
    /\ listMap' = IF proc[p].op = "Clear" THEN EmptyMap ELSE listMap
    /\ UNCHANGED <<endpointCache, setMap, numIPSetEntries, policyCache, programmed,
                   dirtyCache, appliedSets, lastCall>>

\* the work of the call under its lock - after Lock() of a second cache when
\* the call takes one - and the deferred Unlock() of all it holds
Work(p) ==
    /\ proc[p].at = "locked"
    /\ Waits(p) # "none" => Holder(Waits(p)) = {}
    /\ LET r == Apply(proc[p].op, proc[p].args, State) IN
       /\ setMap' = r.st.setMap
       /\ listMap' = r.st.listMap
       /\ numIPSetEntries' = r.st.entries
    /\ proc' = [proc EXCEPT ![p] = IdleProc]
    /\ UNCHANGED <<endpointCache, policyCache, programmed, dirtyCache, appliedSets, lastCall>>

Step(p) == ReturnEarly(p) \/ Lock(p) \/ Work(p)

NextLock == \E p \in Procs : Enter(p) \/ Step(p)

\* sync.Mutex hands the lock to a goroutine that keeps waiting for it
SpecLock ==
    Init /\ [][NextLock]_vars /\ \A p \in Procs : SF_vars(Step(p))

\* goroutines calling DataPlane.AddPolicy on one DataPlane: the steps of a call
\* are the calls it makes into the managers, in the order of the code; neither
\* DataPlane nor PolicyMap holds a lock

\* the two addIPSetReferences calls of the add path
registerReferences(st, policy) ==
    LET r1 == addIPSetReferences(st, policy.PodSelectorIPSets, policy.Name, SelectorType)
        r2 == addIPSetReferences(r1.st, policy.RuleIPSets, policy.Name, NetPolType)
    IN
    IF r1.err # Nil THEN Res(r1.st, r1.err, "AddSelectorReferences")
    ELSE IF r2.err # Nil THEN Res(r2.st, r2.err, "AddRuleReferences")
    ELSE Res(r2.st, Nil, "")

\* the state the goroutine's step leaves, and the goroutine's next position
Moves(p, st, at) ==
    /\ setMap' = st.setMap
    /\ listMap' = st.listMap
    /\ numIPSetEntries' = st.entries
    /\ policyCache' = st.policyCache
    /\ programmed' = st.programmed
    /\ dirtyCache' = st.dirty
    /\ appliedSets' = st.applied
    /\ proc' = [proc EXCEPT ![p].at = at]
    /\ lastCall' = lastCall
    /\ endpointCache' = endpointCache

\* the call of the goroutine returns
Done(p, r) ==
    /\ setMap' = r.st.setMap
    /\ listMap' = r.st.listMap
    /\ numIPSetEntries' = r.st.entries
    /\ policyCache' = r.st.policyCache
    /\ programmed' = r.st.programmed
    /\ dirtyCache' = r.st.dirty
    /\ appliedSets' = r.st.applied
    /\ proc' = [proc EXCEPT ![p] = IdleProc]
    /\ lastCall' = Call(proc[p].op, proc[p].args, r.err, r.log)
    /\ endpointCache' = endpointCache

\* the policies the goroutines add, with the backend's answer
AddPolicyCalls ==
    {<<"p1ListFirst", TRUE>>, <<"p1ListFirst", FALSE>>, <<"p1MemberFirst", TRUE>>,
     <<"p2ListOnly", TRUE>>, <<"p2Selector", TRUE>>}

EnterAddPolicy(p) ==
    /\ proc[p].at = "idle"
    /\ \E call \in AddPolicyCalls :
          proc' = [proc EXCEPT ![p] = [op |-> "AddPolicy", args |-> call,
                                       at |-> "called", holds |-> {}]]
    /\ UNCHANGED <<endpointCache, setMap, listMap, numIPSetEntries, policyCache, programmed,
                   dirtyCache, appliedSets, lastCall>>

\* dp.policyMgr.PolicyExists(policy.Name)
CheckExists(p) ==
    /\ proc[p].op = "AddPolicy" /\ proc[p].at = "called"
    /\ Moves(p, State, IF PolicyExists(State, Policies[proc[p].args[1]].Name)
                       THEN "update" ELSE "add")

\* return dp.UpdatePolicy(policy)
RunUpdatePath(p) ==
    /\ proc[p].op = "AddPolicy" /\ proc[p].at = "update"
    /\ Done(p, UpdatePolicy(State, Policies[proc[p].args[1]], proc[p].args[2]))

\* the selector and the rule references; an error ends the call
RegisterReferences(p) ==
    /\ proc[p].op = "AddPolicy" /\ proc[p].at = "add"
    /\ LET r == registerReferences(State, Policies[proc[p].args[1]]) IN
       IF r.err # Nil THEN Done(p, r) ELSE Moves(p, r.st, "registered")

\* getEndpointsToApplyPolicy and dp.policyMgr.AddPolicy(policy)
CommitPolicy(p) ==
    /\ proc[p].op = "AddPolicy" /\ proc[p].at = "registered"
    /\ LET policy == Policies[proc[p].args[1]]
           ep == getEndpointsToApplyPolicy(policy)
           r == pMgrAddPolicy(State, [policy EXCEPT !.PodEndpoints = ep.endpoints],
                              proc[p].args[2])
       IN Done(p, Res(r.st, r.err, "AddPolicy"))

NextAdd ==
    \E p \in Procs : \/ EnterAddPolicy(p)
                     \/ CheckExists(p)
                     \/ RunUpdatePath(p)
                     \/ RegisterReferences(p)
                     \/ CommitPolicy(p)

SpecAdd == Init /\ [][NextAdd]_vars

\* package dataplane, the windows build: updatePod and the endpoint cache

\* DataPlane.nodeName as NewDataPlane is given it
nodeName == "node1"

Panic == "panic: nil pointer dereference"

\* a *NPMEndpoint: nil, or a pointer to an endpoint
NilEndpoint == [nil |-> TRUE]

NPMEndpoint(name, id, ip) == [nil |-> FALSE, Name |-> name, ID |-> id, IP |-> ip]

getNPMPodKey(nameSpace, name) == nameSpace \o "/" \o name

\* what hcn.ListEndpointsOfNetwork answers
HostComputeEndpoint(name, id, ips) == [Name |-> name, Id |-> id, IpConfigurations |-> ips]

getAllPodEndpoints(answer) ==
    IF answer.err # Nil THEN [endpoints |-> <<>>, err |-> answer.err]
    ELSE [endpoints |-> answer.endpoints, err |-> Nil]

\* the endpoint built from the first listed endpoint one of whose IP
\* configurations is podIP: its IP field is that of the first configuration
RECURSIVE firstEndpointWithIP(_, _)
firstEndpointWithIP(endpoints, podIP) ==
    IF endpoints = <<>> THEN NilEndpoint
    ELSE LET endpoint == Head(endpoints) IN
         IF \E i \in DOMAIN endpoint.IpConfigurations : endpoint.IpConfigurations[i] = podIP
         THEN NPMEndpoint(endpoint.Name, endpoint.Id, endpoint.IpConfigurations[1])
         ELSE firstEndpointWithIP(Tail(endpoints), podIP)

getEndpointByIP(answer, podIP) ==
    LET r == getAllPodEndpoints(answer) IN
    IF r.err # Nil THEN [ep |-> NilEndpoint, err |-> r.err]
    ELSE [ep |-> firstEndpointWithIP(r.endpoints, podIP), err |-> Nil]

updatePod(cache, pod, answer) ==
    IF pod.NodeName # nodeName THEN [cache |-> cache, err |-> Nil]
    ELSE
      LET podKey == getNPMPodKey(pod.Namespace, pod.Name)
          ok == podKey \in DOMAIN cache
          \* a Go map read of an absent key yields the nil pointer
          endpoint == IF ok THEN cache[podKey] ELSE NilEndpoint
      IN
      IF ~ok
      THEN LET r == getEndpointByIP(answer, pod.PodIP) IN
           IF r.err # Nil THEN [cache |-> cache, err |-> r.err]
           ELSE [cache |-> Put(cache, podKey, r.ep), err |-> Nil]
      ELSE IF endpoint.nil THEN [cache |-> cache, err |-> Panic]
      ELSE IF endpoint.IP # pod.PodIP
      THEN LET r == getEndpointByIP(answer, pod.PodIP) IN
           IF r.err # Nil THEN [cache |-> cache, err |-> r.err]
           ELSE [cache |-> Put(cache, podKey, r.ep), err |-> Nil]
      ELSE [cache |-> cache, err |-> Nil]

\* the pods the controller reports and the answers of the network backend
PodIPs == {"10.0.0.1", "10.0.0.2"}

Pods ==
    [Namespace : {"ns"}, Name : {"x", "y"}, NodeName : {"node1", "node2"}, PodIP : PodIPs]

ListAnswers ==
    {[endpoints |-> <<>>, err |-> BackendFailure],
     [endpoints |-> <<>>, err |-> Nil],
     [endpoints |-> <<HostComputeEndpoint("ep1", "id1", <<"10.0.0.1">>)>>, err |-> Nil],
     [endpoints |-> <<HostComputeEndpoint("ep2", "id2", <<"10.0.0.2", "10.0.0.1">>)>>,
      err |-> Nil]}

\* a panic ends the process: no call follows it
CallUpdatePod ==
    /\ lastCall.err # Panic
    /\ \E pod \in Pods, answer \in ListAnswers :
          LET r == updatePod(endpointCache, pod, answer) IN
          /\ endpointCache' = r.cache
          /\ lastCall' = Call("updatePod", <<pod, answer>>, r.err, "")
    /\ UNCHANGED <<setMap, listMap, numIPSetEntries, policyCache, programmed,
                   dirtyCache, appliedSets, proc>>

NextPod == CallUpdatePod

SpecPod == Init /\ [][NextPod]_vars

NextDP ==
    \/ CallDPCreateIPSet
    \/ CallDPDeleteIPSet
    \/ CallAddPolicy
    \/ CallRemovePolicy
    \/ CallUpdatePolicy

SpecDP == Init /\ [][NextDP]_vars

NextPM ==
    \/ CallPMAddPolicy
    \/ CallPMRemovePolicy
    \/ CallAddPolicy
    \/ CallRemovePolicy
    \/ CallUpdatePolicy

SpecPM == Init /\ [][NextPM]_vars

\* Selector sets as in TestGetIPsFromSelectorIPSets, one of each hash type,
\* and the queries over them
SelSets ==
    {<<"setNs1", "NameSpace">>, <<"setpod1", "KeyLabelOfPod">>,
     <<"setpod3", "KeyValueLabelOfPod">>}

SelNames == {s[1] : s \in SelSets}
SelIPs == {"10.0.0.1", "10.0.0.2", "10.0.0.3"}
SelPodKey == "test"

\* the sequences of selector names without a repeated name
SelQueries ==
    {q \in UNION {[1..n -> SelNames] : n \in 0..Cardinality(SelNames)} :
        \A i, j \in DOMAIN q : q[i] = q[j] => i = j}

CallSelCreateIPSet ==
    \E set \in SelSets :
        Returns(CreateIPSet(State, set[1], set[2]), "CreateIPSet", <<set[1], set[2]>>)

CallSelAddToSet ==
    \E name \in SelNames, ip \in SelIPs :
        Returns(AddToSet(State, name, ip, SelPodKey), "AddToSet", <<name, ip, SelPodKey>>)

\* a query: the state stays, lastCall records the IPs returned
CallGetIPsFromSelectorIPSets ==
    \E setNames \in SelQueries :
        LET r == GetIPsFromSelectorIPSets(State, setNames) IN
        /\ lastCall' = [op |-> "GetIPsFromSelectorIPSets", args |-> <<setNames>>,
                        err |-> r.err, log |-> "", ips |-> r.ips]
        /\ UNCHANGED <<endpointCache, setMap, listMap, numIPSetEntries, policyCache, programmed,
                       dirtyCache, appliedSets, proc>>

NextSel ==
    \/ CallSelCreateIPSet
    \/ CallSelAddToSet
    \/ CallGetIPsFromSelectorIPSets

SpecSel == Init /\ [][NextSel]_vars

----------------------------------------------------------------------------
\* Properties

Cached(sm, lm, n) == n \in DOMAIN sm \/ n \in DOMAIN lm

\* the references the cached set(s) of that name hold
RefsOf(sm, lm, n) ==
    (IF n \in DOMAIN sm THEN sm[n].refs ELSE {})
    \cup (IF n \in DOMAIN lm THEN lm[n].refs ELSE {})

Owner(sm, s, ip) == sm[s].IpPodKey[ip]

IsMember(sm, s, ip) == s \in DOMAIN sm /\ ip \in DOMAIN sm[s].IpPodKey

\* C1: once RemovePolicy has found the policy cached and removed it from the
\* policy manager, no cached set holds a reference from that policy.
C1_RemovePolicyReleasesAllReferences ==
    (/\ lastCall.op = "RemovePolicy"
     /\ lastCall.log # "PolicyNotFound"
     /\ lastCall.args[2])
    => \A n \in DPNames, kind \in {SelectorType, NetPolType} :
           <<lastCall.args[1], kind>> \notin RefsOf(setMap, listMap, n)

\* C2: RemovePolicy of one policy and DataPlane.DeleteIPSet leave in the cache
\* every set that holds a reference from another policy that is still cached.
C2_ReferencedSetStaysCached ==
    [][\A n \in DPNames :
          (/\ lastCall'.op \in {"RemovePolicy", "DataPlane.DeleteIPSet"}
           /\ Cached(setMap, listMap, n)
           /\ \E ref \in RefsOf(setMap, listMap, n) :
                 /\ ref[1] \in DOMAIN policyCache
                 /\ lastCall'.op = "RemovePolicy" => ref[1] # lastCall'.args[1])
          => Cached(setMap', listMap', n)]_vars

\* C3: AddPolicy for a policy name that is cached takes the UpdatePolicy path
\* and leaves the references of every set as they were.
C3_SecondAddPolicyIsUpdate ==
    [][(/\ lastCall'.op = "AddPolicy"
        /\ Policies[lastCall'.args[1]].Name \in DOMAIN policyCache)
       => /\ lastCall'.log = "UpdatePolicy"
          /\ \A n \in DPNames :
                RefsOf(setMap', listMap', n) = RefsOf(setMap, listMap, n)]_vars

C3_Witness ==
    /\ lastCall.op = "AddPolicy"
    /\ lastCall.log = "UpdatePolicy"
    /\ lastCall.err = Nil
    /\ "p1" \in DOMAIN policyCache
    /\ Policies[lastCall.args[1]].Name = "p1"
    /\ RefsOf(setMap, listMap, "a") = {<<"p1", SelectorType>>}
    /\ RefsOf(setMap, listMap, "b") = {<<"p1", NetPolType>>}

\* C4: a backend failure inside PolicyManager.AddPolicy or RemovePolicy is the
\* error returned and leaves the policy cache as it was; the policy cache
\* holds only names whose backend add succeeded with no successful backend
\* removal since.
C4_CacheFollowsBackend ==
    [][/\ (/\ \/ lastCall'.op \in {"PolicyManager.AddPolicy", "PolicyManager.RemovePolicy"}
              \/ lastCall'.op = "AddPolicy" /\ lastCall'.log = "AddPolicy"
              \/ lastCall'.op = "RemovePolicy" /\ lastCall'.log = "RemovePolicy"
           /\ ~lastCall'.args[2])
          => (lastCall'.err = BackendFailure /\ policyCache' = policyCache)
       /\ DOMAIN policyCache' \subseteq programmed']_vars

C4_Witness ==
    /\ lastCall.op = "PolicyManager.AddPolicy"
    /\ ~lastCall.args[2]
    /\ lastCall.err = BackendFailure
    /\ Policies[lastCall.args[1]].Name = "p2"
    /\ DOMAIN policyCache = {"p1"}
    /\ programmed = {"p1"}

\* C5 as stated: AddToSet on a cached hash set, for every IP and pod key,
\* returns no error and leaves the IP a member owned by that pod key - counted
\* once when the call replaces another owner.
C5_AddToSetOverwritesOwner_AnyIP ==
    [][\A s \in Names, ip \in IPs, k \in PodKeys :
          (/\ lastCall'.op = "AddToSet"
           /\ lastCall'.args = <<s, ip, k>>
           /\ s \in DOMAIN setMap)
          => /\ lastCall'.err = Nil
             /\ IsMember(setMap', s, ip)
             /\ Owner(setMap', s, ip) = k
             /\ DOMAIN setMap'[s].IpPodKey = DOMAIN setMap[s].IpPodKey \cup {ip}
             /\ IsMember(setMap, s, ip) => numIPSetEntries' = numIPSetEntries]_vars

\* C5 amended: the same for every IPv4 address.
C5_AddToSetOverwritesOwner ==
    [][\A s \in Names, ip \in IPs, k \in PodKeys :
          (/\ lastCall'.op = "AddToSet"
           /\ lastCall'.args = <<s, ip, k>>
           /\ IsIPv4(ip)
           /\ s \in DOMAIN setMap)
          => /\ lastCall'.err = Nil
             /\ IsMember(setMap', s, ip)
             /\ Owner(setMap', s, ip) = k
             /\ DOMAIN setMap'[s].IpPodKey = DOMAIN setMap[s].IpPodKey \cup {ip}
             /\ IsMember(setMap, s, ip) => numIPSetEntries' = numIPSetEntries]_vars

C5_Witness ==
    /\ lastCall.op = "AddToSet"
    /\ lastCall.args = <<"a", "10.0.0.1", "k2">>
    /\ lastCall.log = "PodOwnerChanged"
    /\ lastCall.err = Nil
    /\ IsMember(setMap, "a", "10.0.0.1")
    /\ Owner(setMap, "a", "10.0.0.1") = "k2"

\* C6: DeleteFromSet by a pod key that is not the owner of the IP returns no
\* error and changes nothing; AddToSet makes its pod key the owner.  So the
\* add of the newer pod and the stale delete, in either order, leave the IP
\* with the newer pod.
C6_StaleDeleteIsNoOp ==
    [][\A s \in Names, ip \in IPs, k \in PodKeys :
          /\ (/\ lastCall'.op = "DeleteFromSet"
              /\ lastCall'.args = <<s, ip, k>>
              /\ IsMember(setMap, s, ip)
              /\ Owner(setMap, s, ip) # k)
             => /\ lastCall'.err = Nil
                /\ setMap' = setMap
                /\ listMap' = listMap
                /\ numIPSetEntries' = numIPSetEntries
          /\ (/\ lastCall'.op = "AddToSet"
              /\ lastCall'.args = <<s, ip, k>>
              /\ lastCall'.err = Nil)
             => (IsMember(setMap', s, ip) /\ Owner(setMap', s, ip) = k)]_vars

C6_Witness ==
    /\ lastCall.op = "DeleteFromSet"
    /\ lastCall.args = <<"a", "10.0.0.1", "k1">>
    /\ lastCall.log = "StaleDelete"
    /\ lastCall.err = Nil
    /\ IsMember(setMap, "a", "10.0.0.1")
    /\ Owner(setMap, "a", "10.0.0.1") = "k2"

\* C7: AddToSet with an IPv4 address, naming a set that neither cache holds,
\* returns no error and leaves the set in the hash-set cache with the IP
\* owned by the pod key.
C7_AddToSetCreatesAbsentSet ==
    [][\A s \in Names, ip \in IPs, k \in PodKeys :
          (/\ lastCall'.op = "AddToSet"
           /\ lastCall'.args = <<s, ip, k>>
           /\ IsIPv4(ip)
           /\ ~Cached(setMap, listMap, s))
          => /\ lastCall'.err = Nil
             /\ IsMember(setMap', s, ip)
             /\ Owner(setMap', s, ip) = k
             /\ getSetKind(setMap'[s].Type) = HashSet]_vars

\* C8: CreateIPSet with a type of hash or list kind returns no error and
\* leaves the name in the cache of that kind; when the name is cached there
\* already, both caches stay as they were.  So a second call changes nothing.
C8_CreateIPSetIdempotent ==
    [][\A n \in Names, t \in Types :
          (/\ lastCall'.op = "CreateIPSet"
           /\ lastCall'.args = <<n, t>>
           /\ getSetKind(t) # UnknownSetKind)
          => LET m == IF getSetKind(t) = HashSet THEN setMap ELSE listMap
                 m2 == IF getSetKind(t) = HashSet THEN setMap' ELSE listMap'
             IN /\ lastCall'.err = Nil
                /\ n \in DOMAIN m2
                /\ n \in DOMAIN m => (setMap' = setMap /\ listMap' = listMap)
                /\ n \notin DOMAIN m => m2[n] = NewIPSet(t)
                /\ \A o \in DOMAIN m \ {n} : o \in DOMAIN m2 /\ m2[o] = m[o]]_vars

C8_Witness ==
    /\ lastCall.op = "CreateIPSet"
    /\ lastCall.args = <<"a", "NameSpace">>
    /\ lastCall.err = Nil
    /\ IsMember(setMap, "a", "10.0.0.1")
    /\ Owner(setMap, "a", "10.0.0.1") = "k1"

\* C9: DeleteFromSet naming a set the hash-set cache does not hold returns
\* SetNotFound and leaves both caches as they were.
C9_RemoveFromMissingSet ==
    [][(/\ lastCall'.op = "DeleteFromSet"
        /\ lastCall'.args[1] \notin DOMAIN setMap)
       => /\ lastCall'.err = SetNotFound
          /\ setMap' = setMap
          /\ listMap' = listMap
          /\ numIPSetEntries' = numIPSetEntries]_vars

C9_Witness ==
    /\ lastCall.op = "DeleteFromSet"
    /\ lastCall.args = <<"b", "10.0.0.1", "k1">>
    /\ lastCall.err = SetNotFound
    /\ ~Cached(setMap, listMap, "b")
    /\ IsMember(setMap, "a", "10.0.0.1")

\* C10: AddToList of a list to itself returns SelfReference and changes
\* nothing, whatever the caches hold under that name.
C10_SelfReferenceRejected ==
    [][(/\ lastCall'.op = "AddToList"
        /\ lastCall'.args[1] = lastCall'.args[2])
       => /\ lastCall'.err = SelfReference
          /\ setMap' = setMap
          /\ listMap' = listMap
          /\ numIPSetEntries' = numIPSetEntries]_vars

C10_Witness ==
    /\ lastCall.op = "AddToList"
    /\ lastCall.args = <<"a", "a">>
    /\ lastCall.err = SelfReference
    /\ "a" \in DOMAIN listMap
    /\ "a" \in DOMAIN setMap

IsListMember(lm, l, s) == l \in DOMAIN lm /\ s \in DOMAIN lm[l].IPSet

\* every (list, member) pair the list cache holds
Memberships(lm) == {<<l, s>> \in (DOMAIN lm) \X (Names \cup DPNames) : IsListMember(lm, l, s)}

\* C11: AddToList(L, S) for a set S that neither cache holds, L another name,
\* returns SetNotFound whether or not L is cached, and no list gains a member:
\* both caches and the entry count stay as they were.
C11_AddToListMissingMember ==
    [][\A l \in Names, s \in Names :
          (/\ lastCall'.op = "AddToList"
           /\ lastCall'.args = <<l, s>>
           /\ l # s
           /\ ~Cached(setMap, listMap, s))
          => /\ lastCall'.err = SetNotFound
             /\ Memberships(listMap') = Memberships(listMap)
             /\ listMap' = listMap
             /\ setMap' = setMap
             /\ numIPSetEntries' = numIPSetEntries]_vars

C11_Witness ==
    /\ lastCall.op = "AddToList"
    /\ lastCall.args = <<"a", "b">>
    /\ lastCall.err = SetNotFound
    /\ "a" \in DOMAIN listMap
    /\ getSetKind(listMap["a"].Type) = ListSet
    /\ ~Cached(setMap, listMap, "b")

\* C12: for a cached list L and a cached hash set S, AddToList(L, S) returns
\* no error and leaves S a member of L, and DeleteFromList(L, S) returns no
\* error and leaves S no member of L.
C12_AddThenRemoveRoundTrip ==
    [][\A l \in Names, s \in Names :
          (/\ lastCall'.args = <<l, s>>
           /\ l # s
           /\ l \in DOMAIN listMap
           /\ s \in DOMAIN setMap)
          => /\ lastCall'.op = "AddToList"
                => (lastCall'.err = Nil /\ IsListMember(listMap', l, s))
             /\ lastCall'.op = "DeleteFromList"
                => (lastCall'.err = Nil /\ ~IsListMember(listMap', l, s))]_vars

\* C13: DeleteFromList(L, S) for a cached list L and a cached hash set S that
\* is no member of L returns no error and changes nothing; for a set S the
\* hash-set cache does not hold it returns an error.
C13_RemoveNonMember ==
    [][\A l \in Names, s \in Names :
          (/\ lastCall'.op = "DeleteFromList"
           /\ lastCall'.args = <<l, s>>)
          => /\ (/\ l \in DOMAIN listMap
                 /\ s \in DOMAIN setMap
                 /\ ~IsListMember(listMap, l, s))
                => /\ lastCall'.err = Nil
                   /\ setMap' = setMap
                   /\ listMap' = listMap
                   /\ numIPSetEntries' = numIPSetEntries
             /\ s \notin DOMAIN setMap => lastCall'.err # Nil]_vars

C13_Witness ==
    /\ lastCall.op = "DeleteFromList"
    /\ lastCall.args = <<"a", "b">>
    /\ lastCall.err = Nil
    /\ "a" \in DOMAIN listMap
    /\ "b" \in DOMAIN setMap
    /\ ~IsListMember(listMap, "a", "b")

\* the names of a sequence
Range(q) == {q[i] : i \in DOMAIN q}

\* C14: GetIPsFromSelectorIPSets over cached hash sets returns no error and
\* exactly the IPs that are members of every named set; when a named set has
\* no member it returns the empty set.
C14_SelectorIntersection ==
    [][\A q \in SelQueries :
          (/\ lastCall'.op = "GetIPsFromSelectorIPSets"
           /\ lastCall'.args = <<q>>
           /\ q # <<>>
           /\ Range(q) \subseteq DOMAIN setMap)
          => /\ lastCall'.err = Nil
             /\ lastCall'.ips = {ip \in SelIPs : \A n \in Range(q) : IsMember(setMap, n, ip)}
             /\ (\E n \in Range(q) : DOMAIN setMap[n].IpPodKey = {})
                => lastCall'.ips = {}]_vars

\* the scenario of TestGetIPsFromSelectorIPSets: 10.0.0.1 and 10.0.0.2 in
\* every set, 10.0.0.3 in every set but setpod1
C14_Witness ==
    /\ lastCall.op = "GetIPsFromSelectorIPSets"
    /\ lastCall.args = << <<"setNs1", "setpod1", "setpod3">> >>
    /\ lastCall.err = Nil
    /\ lastCall.ips = {"10.0.0.1", "10.0.0.2"}
    /\ DOMAIN setMap["setNs1"].IpPodKey = SelIPs
    /\ DOMAIN setMap["setpod1"].IpPodKey = {"10.0.0.1", "10.0.0.2"}
    /\ DOMAIN setMap["setpod3"].IpPodKey = SelIPs

\* C15: for every cache state and every query, each reordering of the names
\* gives the same IPs and the same error.
C15_SelectorOrderIndependent ==
    [][\A q \in SelQueries :
          (/\ lastCall'.op = "GetIPsFromSelectorIPSets"
           /\ lastCall'.args = <<q>>)
          => \A p \in SelQueries :
                Range(p) = Range(q)
                => /\ GetIPsFromSelectorIPSets(State, p).ips = lastCall'.ips
                   /\ GetIPsFromSelectorIPSets(State, p).err = lastCall'.err]_vars

\* the last name is the set that excludes 10.0.0.3
C15_Witness ==
    /\ lastCall.op = "GetIPsFromSelectorIPSets"
    /\ lastCall.args = << <<"setpod3", "setNs1", "setpod1">> >>
    /\ lastCall.err = Nil
    /\ lastCall.ips = {"10.0.0.1"}
    /\ DOMAIN setMap["setNs1"].IpPodKey = {"10.0.0.1", "10.0.0.3"}
    /\ DOMAIN setMap["setpod1"].IpPodKey = {"10.0.0.1", "10.0.0.2"}
    /\ DOMAIN setMap["setpod3"].IpPodKey = SelIPs

SetMutators ==
    {"DataPlane.CreateIPSet", "DataPlane.AddToSet", "DataPlane.RemoveFromSet",
     "DataPlane.AddToList", "DataPlane.RemoveFromList"}

\* the caches hold for every name what they held before the step
NoSetMutated ==
    /\ setMap' = setMap
    /\ listMap' = listMap

\* C16: a run of calls that changed no set since the last ApplyDataPlane that
\* succeeded leaves no set dirty; ApplyDataPlane with no set dirty hands the
\* backend nothing, leaves what the backend holds as it was and returns no
\* error; an ApplyDataPlane that succeeds hands the backend the dirty sets
\* and no other, so none is handed over twice.
C16_ApplyWithNothingPending ==
    [][/\ (/\ \/ lastCall.op = "init"
               \/ (lastCall.op = "ApplyDataPlane" /\ lastCall.err = Nil)
               \/ dirtyCache = {}
            /\ NoSetMutated)
          => dirtyCache' = {}
       /\ (lastCall'.op = "ApplyDataPlane" /\ dirtyCache = {})
          => /\ lastCall'.err = Nil
             /\ lastCall'.log = "NothingToApply"
             /\ lastCall'.flushed = {}
             /\ appliedSets' = appliedSets
       /\ (lastCall'.op = "ApplyDataPlane" /\ lastCall'.err = Nil)
          => /\ lastCall'.flushed = dirtyCache
             /\ dirtyCache' = {}
             /\ \A n \in DOMAIN appliedSets \ dirtyCache :
                   n \in DOMAIN appliedSets' /\ appliedSets'[n] = appliedSets[n]]_vars

\* two ApplyDataPlane calls in a row over sets the backend holds already
C16_Witness ==
    /\ lastCall.op = "ApplyDataPlane"
    /\ lastCall.err = Nil
    /\ lastCall.log = "NothingToApply"
    /\ lastCall.flushed = {}
    /\ DOMAIN appliedSets = {"a", "l"}
    /\ appliedSets["a"].ips = {FlushIP}
    /\ appliedSets["l"].members = {"a"}

\* C17: the five set operations leave what the backend holds as it was; an
\* ApplyDataPlane that reaches the backend is one flush, and when it succeeds
\* the backend holds the current content of every cached set, however many
\* set operations came before it.
C17_OnlyApplyReachesBackend ==
    [][/\ lastCall'.op \in SetMutators => appliedSets' = appliedSets
       /\ (lastCall'.op = "ApplyDataPlane" /\ lastCall'.err = Nil)
          => \A n \in DPNames :
                Cached(setMap', listMap', n)
                => /\ n \in DOMAIN appliedSets'
                   /\ appliedSets'[n] = SetContent(State, n)]_vars

\* one flush after three set operations on two sets
C17_Witness ==
    /\ lastCall.op = "ApplyDataPlane"
    /\ lastCall.err = Nil
    /\ lastCall.log = "Flush"
    /\ lastCall.flushed = {"a", "l"}
    /\ appliedSets["a"].ips = {FlushIP}
    /\ appliedSets["l"].members = {"a"}

\* C18: UpdatePolicy - called directly or through AddPolicy - that returns no
\* error for a policy name that is cached leaves the policy it was handed as
\* the cached policy of that name.
C18_UpdateReplacesCachedPolicy ==
    [][(/\ lastCall'.op \in {"UpdatePolicy", "AddPolicy"}
        /\ lastCall'.log = "UpdatePolicy"
        /\ lastCall'.err = Nil
        /\ Policies[lastCall'.args[1]].Name \in DOMAIN policyCache)
       => LET policy == Policies[lastCall'.args[1]] IN
          /\ policy.Name \in DOMAIN policyCache'
          /\ policyCache'[policy.Name] = policy]_vars

\* no goroutine waits for listMap while it holds setMap: list before set
LockOrder == \A p \in Procs : "setMap" \in proc[p].holds => Waits(p) # "listMap"

\* no goroutine waits for a lock it holds
NoRelock == \A p \in Procs : Waits(p) \notin proc[p].holds

\* no two goroutines wait for a lock the other holds
NoWaitCycle ==
    \A p, q \in Procs :
        ~(p # q /\ Waits(p) \in proc[q].holds /\ Waits(q) \in proc[p].holds)

\* C19: under every interleaving of concurrent manager calls the locks are
\* taken list before set, no call waits for a lock it holds, no two calls
\* wait for each other, and every call that is entered returns.
C19_EveryCallReturns ==
    /\ [](LockOrder /\ NoRelock /\ NoWaitCycle)
    /\ \A p \in Procs : (proc[p].at # "idle") ~> (proc[p].at = "idle")

\* Clear holds listMap and waits for setMap, which an AddToSet that finds
\* its set not cached holds
C19_Witness ==
    /\ proc["g1"].op = "Clear"
    /\ proc["g1"].at = "locked"
    /\ proc["g1"].holds = {"listMap"}
    /\ proc["g2"].op = "AddToSet"
    /\ proc["g2"].at = "locked"
    /\ proc["g2"].holds = {"setMap"}
    /\ "a" \notin DOMAIN setMap

\* C20: when RemovePolicy has returned an error from a step after the policy
\* manager's removal, the RemovePolicy of the same name that next returns no
\* error leaves no cached set with a reference from that policy.
C20_RemovePolicyRetryConverges ==
    [][(/\ lastCall.op = "RemovePolicy"
        /\ lastCall.err # Nil
        /\ lastCall.log \in {"DeleteRuleReferences", "DeleteSelectorReferences"}
        /\ lastCall'.op = "RemovePolicy"
        /\ lastCall'.args[1] = lastCall.args[1]
        /\ lastCall'.err = Nil)
       => \A n \in DPNames, kind \in {SelectorType, NetPolType} :
             <<lastCall.args[1], kind>> \notin RefsOf(setMap', listMap', n)]_vars

\* the manager and policy state after the step
StateNext ==
    [setMap |-> setMap', listMap |-> listMap', entries |-> numIPSetEntries',
     policyCache |-> policyCache', programmed |-> programmed',
     dirty |-> dirtyCache', applied |-> appliedSets']

\* the references policy name holds in st: (set, kind) pairs
RefsFrom(st, name) ==
    {<<n, kind>> \in DPNames \X {SelectorType, NetPolType} :
        <<name, kind>> \in RefsOf(st.setMap, st.listMap, n)}

\* the references a policy registers: one per set and kind of its lists
RefsWanted(policy) ==
    {<<policy.PodSelectorIPSets[i].Name, SelectorType>> : i \in DOMAIN policy.PodSelectorIPSets}
    \cup {<<policy.RuleIPSets[i].Name, NetPolType>> : i \in DOMAIN policy.RuleIPSets}

\* P is cached and holds the references of its lists, each on a cached set
Added(st, policy) ==
    /\ policy.Name \in DOMAIN st.policyCache
    /\ st.policyCache[policy.Name] = policy
    /\ RefsWanted(policy) \subseteq RefsFrom(st, policy.Name)
    /\ \A ref \in RefsWanted(policy) : Cached(st.setMap, st.listMap, ref[1])

SelectorRefs(policy) ==
    {<<policy.PodSelectorIPSets[i].Name, SelectorType>> : i \in DOMAIN policy.PodSelectorIPSets}

RuleRefsFrom(st, name) == {ref \in RefsFrom(st, name) : ref[2] = NetPolType}

C22_ReferencesBeforeCommit ==
    [][(lastCall'.op = "AddPolicy" /\ lastCall'.log # "UpdatePolicy")
       => LET policy == Policies[lastCall'.args[1]] IN
          /\ lastCall'.log = "AddSelectorReferences"
                => /\ RuleRefsFrom(StateNext, policy.Name) = RuleRefsFrom(State, policy.Name)
                   /\ policyCache' = policyCache
          /\ lastCall'.log = "AddRuleReferences"
                => /\ SelectorRefs(policy) \subseteq RefsFrom(StateNext, policy.Name)
                   /\ policyCache' = policyCache
          /\ policy.Name \in DOMAIN policyCache'
                => /\ lastCall'.err = Nil
                   /\ RefsWanted(policy) \subseteq RefsFrom(StateNext, policy.Name)
                   /\ \A ref \in RefsWanted(policy) :
                          Cached(setMap', listMap', ref[1])]_vars

C22_Witness ==
    /\ lastCall.op = "AddPolicy" /\ lastCall.log = "AddPolicy" /\ lastCall.err = Nil
    /\ lastCall.args[1] = "p1ListFirst"
    /\ "p1" \in DOMAIN policyCache
    /\ RefsFrom(State, "p1") = {<<"a", SelectorType>>, <<"l", NetPolType>>, <<"b", NetPolType>>}

\* C23: RemovePolicy looks the policy up before it changes anything (an
\* unknown name changes nothing), removes it from the policy manager before
\* it releases a reference (a failed removal leaves the set caches, the
\* references and the policy cache as they were), and releases the rule
\* references before the selector references (a call that fails on a rule
\* set has released no selector reference, a call that fails on a selector
\* set has released every rule reference of the policy); whenever a release
\* step was reached the policy is out of the policy cache.
SelectorRefsFrom(st, name) == {ref \in RefsFrom(st, name) : ref[2] = SelectorType}

RuleRefs(policy) ==
    {<<policy.RuleIPSets[i].Name, NetPolType>> : i \in DOMAIN policy.RuleIPSets}

C23_RemovePolicyOrder ==
    [][lastCall'.op = "RemovePolicy"
       => LET name == lastCall'.args[1] IN
          /\ lastCall'.log = "PolicyNotFound"
                => /\ name \notin DOMAIN policyCache
                   /\ StateNext = State
          /\ (lastCall'.log = "RemovePolicy" /\ lastCall'.err # Nil)
                => /\ setMap' = setMap /\ listMap' = listMap
                   /\ numIPSetEntries' = numIPSetEntries
                   /\ policyCache' = policyCache
          /\ lastCall'.log = "DeleteRuleReferences"
                => /\ name \notin DOMAIN policyCache'
                   /\ SelectorRefsFrom(StateNext, name) = SelectorRefsFrom(State, name)
          /\ lastCall'.log = "DeleteSelectorReferences"
                => /\ name \notin DOMAIN policyCache'
                   /\ RuleRefs(policyCache[name]) \cap RefsFrom(StateNext, name) = {}]_vars

C23_Witness ==
    /\ lastCall.op = "RemovePolicy" /\ lastCall.args[1] = "p1"
    /\ lastCall.err = BackendFailure /\ lastCall.log = "RemovePolicy"
    /\ "p1" \in DOMAIN policyCache
    /\ RefsFrom(State, "p1") = RefsWanted(policyCache["p1"])

\* C24: a failing step of the add path of AddPolicy ends the call: the error
\* is returned, no later step has run (the policy is neither cached nor
\* programmed, a selector failure has registered no rule reference) and
\* nothing is rolled back (every set and every reference of the policy that
\* was there before is still there, the references of the steps before the
\* failing one are registered, and a rule step that failed after registering
\* its sets, while pushing list members, still holds its references).
C24_FailedAddPolicyNoRollback ==
    [][(/\ lastCall'.op = "AddPolicy" /\ lastCall'.log # "UpdatePolicy"
        /\ lastCall'.err # Nil)
       => LET policy == Policies[lastCall'.args[1]] IN
          /\ policy.Name \notin DOMAIN policyCache'
          /\ policyCache' = policyCache
          /\ programmed' = programmed
          /\ RefsFrom(State, policy.Name) \subseteq RefsFrom(StateNext, policy.Name)
          /\ \A n \in DPNames : Cached(setMap, listMap, n) => Cached(setMap', listMap', n)
          /\ lastCall'.log = "AddSelectorReferences"
                => RuleRefsFrom(StateNext, policy.Name) = RuleRefsFrom(State, policy.Name)
          /\ lastCall'.log = "AddRuleReferences"
                => /\ SelectorRefs(policy) \subseteq RefsFrom(StateNext, policy.Name)
                   /\ (\A ref \in RuleRefs(policy) : Cached(setMap', listMap', ref[1]))
                         => RuleRefs(policy) \subseteq RefsFrom(StateNext, policy.Name)
          /\ lastCall'.log = "AddPolicy"
                => RefsWanted(policy) \subseteq RefsFrom(StateNext, policy.Name)]_vars

C24_Witness ==
    /\ lastCall.op = "AddPolicy" /\ lastCall.args[1] = "p2ListOnly"
    /\ lastCall.err = SetNotFound /\ lastCall.log = "AddRuleReferences"
    /\ "p2" \notin DOMAIN policyCache
    /\ RefsFrom(State, "p2") = {<<"a", SelectorType>>, <<"l", NetPolType>>}
    /\ ~Cached(setMap, listMap, "b")

\* C25: a manager step that fails inside a DataPlane operation fails the
\* operation: DataPlane.CreateIPSet and DataPlane.DeleteIPSet return the error
\* of the manager call they make, and an AddPolicy that ran its add path to
\* the end without an error made no CreateIPSet call that failed.
SetsOf(policy) ==
    {policy.PodSelectorIPSets[i] : i \in DOMAIN policy.PodSelectorIPSets}
    \cup {policy.RuleIPSets[i] : i \in DOMAIN policy.RuleIPSets}

C25_ManagerFailuresReturned ==
    [][/\ lastCall'.op = "DataPlane.CreateIPSet"
            => lastCall'.err = mgrCreateIPSet(State, lastCall'.args[1], lastCall'.args[2]).err
       /\ lastCall'.op = "DataPlane.DeleteIPSet"
            => lastCall'.err = DeleteIPSet(State, lastCall'.args[1]).err
       /\ (/\ lastCall'.op = "AddPolicy" /\ lastCall'.log = "AddPolicy"
           /\ lastCall'.err = Nil)
            => \A set \in SetsOf(Policies[lastCall'.args[1]]) :
                  mgrCreateIPSet(State, set.Name, set.Type).err = Nil]_vars

\* C26: concurrent AddPolicy calls for one policy name are linearized: between
\* the existence check of a call that takes the add path and its commit no
\* other call for that name is on the add path, so of two calls for a name
\* that was never seen one runs the add path and the other the update path.
OnAddPath(p) == proc[p].op = "AddPolicy" /\ proc[p].at \in {"add", "registered"}

C26_AddPolicyLinearized ==
    \A p, q \in Procs :
        (/\ p # q /\ OnAddPath(p) /\ OnAddPath(q))
        => Policies[proc[p].args[1]].Name # Policies[proc[q].args[1]].Name

\* C27: a call that is in its body holds, or takes before it goes on, the lock
\* of every cache the body reads or writes; in particular AddToList and
\* DeleteFromList are never in their body, reading the hash-set cache, while
\* another call holds the hash-set lock to write that cache.
LocksOf(p) == proc[p].holds \cup ({SecondLock(proc[p].op, proc[p].args, State)} \ {"none"})

C27_CachesUsedUnderLock ==
    /\ \A p \in Procs :
          proc[p].at = "locked" => CachesUsed(proc[p].op, proc[p].args) \subseteq LocksOf(p)
    /\ \A p, q \in Procs :
          ~(/\ proc[p].at = "locked" /\ proc[p].op \in {"AddToList", "DeleteFromList"}
            /\ proc[q].at = "locked" /\ proc[q].op \in SetCacheWriters
            /\ "setMap" \in proc[q].holds)

\* C28: after every manager operation every set of the hash-set cache is of
\* hash kind, every set of the list cache is of list kind and no list is a
\* member of itself; on a platform without nested lists every member a call
\* puts into a list is the cached hash set of that name (a set object never
\* changes its type, so every member of every list is of hash kind).
MemberObjects(lm) ==
    {<<l, s>> \in Memberships(lm) : lm[l].IPSet[s]}

C28_CacheKindInvariants ==
    [][/\ \A n \in DOMAIN setMap' : getSetKind(setMap'[n].Type) = HashSet
       /\ \A n \in DOMAIN listMap' : getSetKind(listMap'[n].Type) = ListSet
       /\ \A l \in DOMAIN listMap' : ~IsListMember(listMap', l, l)
       /\ os # "windows"
            => \A pair \in MemberObjects(listMap') \ MemberObjects(listMap) :
                  /\ pair[2] \in DOMAIN setMap
                  /\ getSetKind(setMap[pair[2]].Type) = HashSet]_vars

C28_Witness ==
    /\ lastCall.op = "AddToList" /\ lastCall.args = <<"a", "b">> /\ lastCall.err = Nil
    /\ "a" \in DOMAIN listMap /\ "a" \in DOMAIN setMap
    /\ "b" \in DOMAIN listMap /\ "b" \in DOMAIN setMap
    /\ IsListMember(listMap, "a", "b")
    /\ ~IsListMember(listMap, "b", "a")

\* C29: for a cached list L and another cached list M, AddToList(L, M)
\* returns no error on a platform with nested lists and WrongKind on a
\* platform without; DeleteFromList(L, M) validates the member as AddToList
\* does and returns what AddToList returns for the same names.
C29_ListMemberValidation ==
    [][\A l \in Names, s \in Names :
          (/\ lastCall'.args = <<l, s>>
           /\ l # s
           /\ l \in DOMAIN listMap
           /\ s \in DOMAIN listMap)
          => /\ lastCall'.op = "AddToList"
                => lastCall'.err = (IF os = "windows" THEN Nil ELSE WrongKind)
             /\ lastCall'.op = "DeleteFromList"
                => lastCall'.err = AddToList(State, l, s).err]_vars

\* C30: a call of CreateIPSet, AddToSet, DeleteFromSet, AddToList or
\* DeleteFromList that returns a validation error leaves both caches, with
\* every membership map in them, and the entry metric as they were.
ValidationErrors == {UnknownKind, UnsupportedFamily, WrongKind, SetNotFound, SelfReference}

C30_ValidationErrorsMutateNothing ==
    [][(/\ lastCall'.op \in {"CreateIPSet", "AddToSet", "DeleteFromSet", "AddToList",
                             "DeleteFromList"}
        /\ lastCall'.err \in ValidationErrors)
       => /\ setMap' = setMap
          /\ listMap' = listMap
          /\ numIPSetEntries' = numIPSetEntries]_vars

C30_Witness ==
    /\ lastCall.op = "AddToSet" /\ lastCall.args[1] = "b" /\ IsIPv4(lastCall.args[2])
    /\ lastCall.err = UnknownKind
    /\ ~Cached(setMap, listMap, "b")
    /\ IsMember(setMap, "a", "10.0.0.1")
    /\ numIPSetEntries = 1

\* C31: after every manager operation the entry metric is the number of
\* (hash set, IP) memberships plus the number of (list, member) memberships
\* the caches hold.
SetMemberships(sm) == {<<s, ip>> \in (DOMAIN sm) \X IPs : IsMember(sm, s, ip)}

C31_MetricCountsMemberships ==
    numIPSetEntries = Cardinality(SetMemberships(setMap))
                      + Cardinality(Memberships(listMap))

\* C32: every member a cached list records is a set the hash-set cache holds
\* under that name, and is that cached object.
C32_NoDanglingListMember ==
    \A pair \in Memberships(listMap) :
        /\ pair[2] \in DOMAIN setMap
        /\ listMap[pair[1]].IPSet[pair[2]]

\* C33: updatePod never dereferences a nil endpoint; a call for a pod of this
\* node that returns no error leaves under the pod's key an endpoint that is
\* not nil and has the pod's IP; a call for a pod of another node changes
\* nothing; no call changes the entry of another pod key.
C33_EndpointCacheHoldsPodIP ==
    [][lastCall'.op = "updatePod"
       => LET pod == lastCall'.args[1]
              podKey == getNPMPodKey(pod.Namespace, pod.Name)
          IN
          /\ lastCall'.err # Panic
          /\ pod.NodeName # nodeName
                => (lastCall'.err = Nil /\ endpointCache' = endpointCache)
          /\ (pod.NodeName = nodeName /\ lastCall'.err = Nil)
                => /\ podKey \in DOMAIN endpointCache'
                   /\ ~endpointCache'[podKey].nil
                   /\ endpointCache'[podKey].IP = pod.PodIP
          /\ \A k \in DOMAIN endpointCache \ {podKey} :
                k \in DOMAIN endpointCache' /\ endpointCache'[k] = endpointCache[k]]_vars
====
